---- MODULE Spec2Model ----
(***************************************************************************)
(* Model of flight_search_mcp.py: the flight-data normalizer               *)
(* (process_flight_data) and the three request handlers (search_flights,   *)
(* search_airports, get_flight_prices) that call the upstream search API.  *)
(*                                                                         *)
(* Python values are encoded as follows.                                   *)
(*   - a str is a sequence of one-character strings; "" is << >>;          *)
(*   - an Optional[str] is a record [some, s]; None is [some |-> FALSE];   *)
(*   - the JSON value under a flight's "price" key is a record [t, v]:     *)
(*     t = "absent" (no such key), "null", "num" (v the number) or "str"   *)
(*     (a non-empty, non-numeric string of length v);                      *)
(*   - a dict is a record; DOMAIN gives its keys;                          *)
(*   - a call that may raise yields [kind |-> "returned", value |-> ...]   *)
(*     or [kind |-> "raised"].                                             *)
(***************************************************************************)
EXTENDS Integers, Sequences, FiniteSets, TLC

VARIABLES
    serpapi_key,   \* os.getenv("SERPAPI_KEY"): a str, << >> when unset
    pc,            \* "idle" | "awaiting" (request in flight) | "called" | "done"
    tool,          \* the operation invoked
    args,          \* its arguments (ctx: whether a logging context is supplied)
    request,       \* the params of the HTTP GET in flight or last sent
    netCalls,      \* requests.get calls issued by the current invocation
    upstream,      \* the upstream outcome delivered / the raw response given
    result         \* what the invocation ended with

vars == <<serpapi_key, pc, tool, args, request, netCalls, upstream, result>>

(***************************************************************************)
(* Bounds and program constants                                            *)
(***************************************************************************)
MaxFlights == 6     \* longest flight list given to the normalizer directly
MaxOther == 2       \* longest alternate list given to the normalizer directly
MaxUpstream == 2    \* longest flight list in an upstream response to a handler
MaxQueryLen == 3    \* longest search_airports query
MaxMinutes == 1500  \* longest duration given to format_duration
MaxTimeLen == 4     \* longest time string given to format_time
TopN == 5           \* flights[:5]

(***************************************************************************)
(* Strings                                                                 *)
(***************************************************************************)
Chars == {"a", "B", "1"}

Strings(n) == UNION {[1..k -> Chars] : k \in 0..n}

None == [some |-> FALSE, s |-> << >>]

Some(s) == [some |-> TRUE, s |-> s]

\* Python truthiness of an Optional[str]
TruthyOpt(o) == o.some /\ o.s # << >>

\* Python truthiness of a str
TruthyStr(s) == s # << >>

IsAlphaChar(c) == c \in {"a", "B"}

UpperChar(c) == IF c = "a" THEN "A" ELSE c

\* str.upper()
Upper(s) == [i \in 1..Len(s) |-> UpperChar(s[i])]

\* str.isalpha(): non-empty and every character alphabetic
IsAlpha(s) == Len(s) > 0 /\ \A i \in 1..Len(s) : IsAlphaChar(s[i])

(***************************************************************************)
(* Raw vendor data                                                         *)
(***************************************************************************)
Absent == [t |-> "absent", v |-> 0]

Null == [t |-> "null", v |-> 0]

Num(n) == [t |-> "num", v |-> n]

NonNumeric == [t |-> "str", v |-> 3]

PriceSamples == {Num(100), Num(250)}

RawPrices == {Absent, Null, NonNumeric} \cup PriceSamples

RawFlights == [price : RawPrices]

\* A response body that is not JSON; exc is the class response.json() raises,
\* which depends on the installed requests: its JSONDecodeError is a
\* RequestException from 2.27 on and a plain ValueError before
NotJson(exc) == [json |-> FALSE, dict |-> FALSE, exc |-> exc]

\* A JSON body that is not an object (a list, a string, a number)
NotADict == [json |-> TRUE, dict |-> FALSE]

\* A JSON object: whether it has the key "error", and its two flight lists
ResultsDict(e, b, o) ==
    [json |-> TRUE, dict |-> TRUE, has_error |-> e,
     best_flights |-> b, other_flights |-> o]

(***************************************************************************)
(* process_flight_data                                                     *)
(***************************************************************************)
\* flight.get("price", 0)
GetPrice(flight) == IF flight.price.t = "absent" THEN Num(0) ELSE flight.price

\* truthiness of a price value: `if price`
TruthyPrice(p) ==
    CASE p.t = "num" -> p.v # 0
      [] p.t = "str" -> p.v > 0
      [] OTHER -> FALSE

\* f"${price:,.0f}" raises ValueError on a str
FormatPriceRaises(p) == TruthyPrice(p) /\ p.t = "str"

\* price_formatted: "$<n>" or "Price not available"
FormatPrice(p) ==
    IF TruthyPrice(p) THEN [t |-> "usd", v |-> p.v] ELSE [t |-> "na", v |-> 0]

\* the enhanced flight built from raw option i of the selected list; raw is
\* the option's position in that list (not a key of the dict: it tells the
\* flights apart)
EnhancedFlight(flight, i) ==
    [raw |-> i,
     price |-> GetPrice(flight),
     price_formatted |-> FormatPrice(GetPrice(flight))]

\* best_flights, or other_flights when best_flights is empty
SelectedFlights(fd) ==
    IF fd.best_flights # << >> THEN fd.best_flights ELSE fd.other_flights

\* a < b is defined between two numbers or two strings only
Comparable(a, b) == a.t = b.t /\ a.t \in {"num", "str"}

\* list.sort raises TypeError when it compares two keys that have no order;
\* a list of one element is never compared
SortRaises(fs) ==
    /\ Len(fs) >= 2
    /\ \E i, j \in 1..Len(fs) : i # j /\ ~Comparable(fs[i].price, fs[j].price)

\* the insertion of a sort with reverse=True
InsertByPrice_descending(sorted, x) ==
    LET keep == {i \in 1..Len(sorted) : sorted[i].price.v >= x.price.v}
        k == Cardinality(keep)
    IN  SubSeq(sorted, 1, k) \o <<x>> \o SubSeq(sorted, k + 1, Len(sorted))

\* x placed after every element whose price is not greater (stable)
InsertByPrice(sorted, x) ==
    LET keep == {i \in 1..Len(sorted) : sorted[i].price.v <= x.price.v}
        k == Cardinality(keep)
    IN  SubSeq(sorted, 1, k) \o <<x>> \o SubSeq(sorted, k + 1, Len(sorted))

RECURSIVE SortByPrice(_)
\* flights.sort(key=lambda x: x.get("price", float("inf"))): every enhanced
\* flight has the key "price", so the key is the price itself
SortByPrice(fs) ==
    IF fs = << >> THEN << >>
    ELSE InsertByPrice(SortByPrice(SubSeq(fs, 1, Len(fs) - 1)), fs[Len(fs)])

\* flights[:5]
TopFlights(fs) == SubSeq(fs, 1, IF Len(fs) < TopN THEN Len(fs) ELSE TopN)

EnhancedFlights(fd) ==
    LET sel == SelectedFlights(fd)
    IN  [i \in 1..Len(sel) |-> EnhancedFlight(sel[i], i)]

\* the try block, were an empty selection an error as it is in search_flights
ProcessRaises_emptyIsError(fd) ==
    \/ ~fd.dict
    \/ SelectedFlights(fd) = << >>
    \/ \E i \in 1..Len(SelectedFlights(fd)) :
           FormatPriceRaises(GetPrice(SelectedFlights(fd)[i]))
    \/ SortRaises(EnhancedFlights(fd))

\* whether the try block raises: .get on a non-dict, the price format, the sort
ProcessRaises(fd) ==
    \/ ~fd.dict
    \/ \E i \in 1..Len(SelectedFlights(fd)) :
           FormatPriceRaises(GetPrice(SelectedFlights(fd)[i]))
    \/ SortRaises(EnhancedFlights(fd))

SearchParams(source, destination, departure_date, return_date, currency) ==
    [source |-> source, destination |-> destination,
     departure_date |-> departure_date, return_date |-> return_date,
     currency |-> currency]

USD == <<"U", "S", "D">>

ProcessSuccess(fd, source, destination, departure_date, return_date) ==
    LET top == TopFlights(SortByPrice(EnhancedFlights(fd)))
    IN  [success |-> TRUE,
         flights |-> top,
         search_params |->
             SearchParams(source, destination, departure_date, return_date, USD),
         total_flights |-> Len(top),
         search_timestamp |-> "now",
         price_insights |-> "passthrough",
         booking_instructions |-> "instructions"]

ProcessFailure(source, destination, departure_date, return_date) ==
    [success |-> FALSE,
     error |-> "Error processing flight data",
     flights |-> << >>,
     search_params |->
         SearchParams(source, destination, departure_date, return_date, USD),
     total_flights |-> 0,
     search_timestamp |-> "now"]

Returned(v) == [kind |-> "returned", value |-> v]

Raised == [kind |-> "raised"]

NoResult == [kind |-> "none"]

\* the normalizer without its except clause
process_flight_data_uncaught(fd, source, destination, departure_date, return_date) ==
    IF ProcessRaises(fd)
    THEN Raised
    ELSE Returned(ProcessSuccess(fd, source, destination, departure_date, return_date))

process_flight_data(fd, source, destination, departure_date, return_date) ==
    IF ProcessRaises(fd)
    THEN Returned(ProcessFailure(source, destination, departure_date, return_date))
    ELSE Returned(ProcessSuccess(fd, source, destination, departure_date, return_date))

(***************************************************************************)
(* The normalizer called directly                                          *)
(***************************************************************************)
SampleA == <<"a", "B", "a">>

SampleB == <<"B", "B", "1">>

SampleDate == <<"1", "1">>

NormalizerArgs ==
    {[source |-> SampleA, destination |-> SampleB,
      departure_date |-> SampleDate, return_date |-> None],
     [source |-> SampleB, destination |-> SampleA,
      departure_date |-> SampleDate, return_date |-> Some(SampleDate)]}

\* raw responses: not an object; a primary list of up to MaxFlights options;
\* an alternate list of up to MaxOther options beside a primary list no
\* longer than that
InitNormalizer ==
    /\ serpapi_key = << >>
    /\ pc = "called"
    /\ tool = "process_flight_data"
    /\ args \in NormalizerArgs
    /\ request = [sent |-> FALSE]
    /\ netCalls = 0
    /\ \E n \in 0..MaxFlights, m \in 0..MaxOther :
        \E b \in [1..n -> RawFlights], o \in [1..m -> RawFlights] :
            /\ m = 0 \/ n <= MaxOther
            /\ upstream \in
                   IF n = 0 /\ m = 0
                   THEN {NotADict, ResultsDict(FALSE, b, o)}
                   ELSE {ResultsDict(FALSE, b, o)}
    /\ result = NoResult

ProcessFlightData ==
    /\ pc = "called"
    /\ tool = "process_flight_data"
    /\ result' = process_flight_data(upstream, args.source, args.destination,
                                     args.departure_date, args.return_date)
    /\ pc' = "done"
    /\ UNCHANGED <<serpapi_key, tool, args, request, netCalls, upstream>>

NextNormalizer == ProcessFlightData

SpecNormalizer == InitNormalizer /\ [][NextNormalizer]_vars

(***************************************************************************)
(* The request handlers                                                    *)
(***************************************************************************)
SampleKey == <<"B", "1">>

FlightArgs ==
    [source : {<< >>, SampleA}, destination : {<< >>, SampleB},
     departure_date : {<< >>, SampleDate},
     return_date : {None, Some(<< >>), Some(SampleDate)},
     currency : {USD}, ctx : BOOLEAN]

AirportArgs == [query : Strings(MaxQueryLen), ctx : BOOLEAN]

PriceArgs ==
    [source : {<< >>, SampleA}, destination : {<< >>, SampleB},
     start_date : {<< >>, SampleDate}, end_date : {<< >>, SampleDate},
     currency : {USD}, ctx : BOOLEAN]

\* flight options in the upstream responses search_flights receives
UpstreamFlights == [price : {Absent, NonNumeric, Num(100)}]

UpstreamLists == UNION {[1..k -> UpstreamFlights] : k \in 0..MaxUpstream}

\* bodies whose flight lists are read (search_flights), and bodies of which
\* only the presence of "error" is modelled: search_airports and
\* get_flight_prices pass the body through without reading it
FlightBodies ==
    {NotJson("RequestException"), NotJson("ValueError"), NotADict} \cup
    {ResultsDict(e, b, o) : e \in BOOLEAN, b \in UpstreamLists, o \in UpstreamLists}

OpaqueBodies ==
    {NotJson("RequestException"), NotJson("ValueError"), NotADict} \cup
    {ResultsDict(e, << >>, << >>) : e \in BOOLEAN}

\* requests.get raises (connection error, timeout), or a response arrives
\* with a 2xx status or not and some body
TransportFailure == [kind |-> "transport"]

Outcomes(bodies) ==
    {TransportFailure} \cup
    {[kind |-> "response", status_ok |-> ok, body |-> b] :
         ok \in BOOLEAN, b \in bodies}

FlightOutcomes == Outcomes(FlightBodies)

OpaqueOutcomes == Outcomes(OpaqueBodies)

NoOutcome == [kind |-> "none"]

NoRequest == [sent |-> FALSE]

NoArgs == [ctx |-> FALSE]

Early(response) == [early |-> TRUE, response |-> response]

Proceed(params) == [early |-> FALSE, params |-> params]

\* requests.get(...): one more call to the upstream API
SendRequestTwice(n) == n + 2

SendRequest(n) == n + 1
(***************************************************************************)
(* search_flights                                                          *)
(***************************************************************************)
MissingParameters ==
    [success |-> FALSE,
     error |-> "Missing required parameters",
     flights |-> << >>]

FlightsKeyNotConfigured ==
    [success |-> FALSE,
     error |-> "SerpAPI key not configured",
     flights |-> << >>]

FlightSearchRequest(a, key) ==
    LET base == [engine |-> "google_flights",
                 departure_id |-> Upper(a.source),
                 arrival_id |-> Upper(a.destination),
                 outbound_date |-> a.departure_date,
                 currency |-> a.currency,
                 hl |-> "en",
                 api_key |-> key]
    IN  IF TruthyOpt(a.return_date)
        THEN [k \in DOMAIN base \cup {"return_date", "type"} |->
                 IF k = "return_date" THEN a.return_date.s
                 ELSE IF k = "type" THEN "1"
                 ELSE base[k]]
        ELSE [k \in DOMAIN base \cup {"type"} |->
                 IF k = "type" THEN "2" ELSE base[k]]

\* search_flights without the API-key check
search_flights_entry_nokeycheck(a, key) ==
    IF ~TruthyStr(a.source) \/ ~TruthyStr(a.destination)
           \/ ~TruthyStr(a.departure_date)
    THEN Early(MissingParameters)
    ELSE Proceed(FlightSearchRequest(a, key))

\* search_flights up to the request: the validation, the API-key check and
\* the request's parameters
search_flights_entry(a, key) ==
    IF ~TruthyStr(a.source) \/ ~TruthyStr(a.destination)
           \/ ~TruthyStr(a.departure_date)
    THEN Early(MissingParameters)
    ELSE IF ~TruthyStr(key)
    THEN Early(FlightsKeyNotConfigured)
    ELSE Proceed(FlightSearchRequest(a, key))

SerpApiError ==
    [success |-> FALSE, error |-> "SerpAPI error", flights |-> << >>]

NoFlightsFound(a) ==
    [success |-> FALSE,
     error |-> "No flights found for the specified route and dates",
     flights |-> << >>,
     search_params |-> SearchParams(a.source, a.destination, a.departure_date,
                                    a.return_date, a.currency),
     total_flights |-> 0,
     search_timestamp |-> "now"]

\* the response of either except clause of search_flights, without "error"
FlightsFailure_noerror(a, msg) ==
    [success |-> FALSE,
     flights |-> << >>,
     search_params |-> SearchParams(a.source, a.destination, a.departure_date,
                                    a.return_date, a.currency)]

\* the response of either except clause of search_flights
FlightsFailure(a, msg) ==
    [success |-> FALSE,
     error |-> msg,
     flights |-> << >>,
     search_params |-> SearchParams(a.source, a.destination, a.departure_date,
                                    a.return_date, a.currency)]

\* search_flights from the response on; raise_for_status is commented out,
\* so the status is not looked at
search_flights_exit(a, outcome) ==
    IF outcome.kind = "transport"
    THEN Returned(FlightsFailure(a, "API request failed"))
    ELSE LET results == outcome.body
         IN  IF ~results.json
             THEN Returned(FlightsFailure(a,
                      IF results.exc = "RequestException"
                      THEN "API request failed" ELSE "Error searching flights"))
             ELSE IF ~results.dict
             \* results.get(...) raises AttributeError
             THEN Returned(FlightsFailure(a, "Error searching flights"))
             ELSE IF results.has_error
             THEN Returned(SerpApiError)
             ELSE IF results.best_flights # << >>
             THEN LET r == process_flight_data(results, a.source, a.destination,
                                               a.departure_date, a.return_date)
                  IN  IF r.kind = "raised"
                      THEN Returned(FlightsFailure(a, "Error searching flights"))
                      ELSE r
             ELSE Returned(NoFlightsFound(a))

(***************************************************************************)
(* search_airports                                                         *)
(***************************************************************************)
AirportsKeyNotConfigured ==
    [success |-> FALSE,
     error |-> "SerpAPI key not configured",
     airports |-> << >>]

InfoSuffix == <<" airport IATA code information">>

\* the request, were the IATA test the length alone
AirportSearchRequest_lengthOnly(query, key) ==
    IF Len(query) = 3
    THEN [engine |-> "google_flights",
          departure_id |-> Upper(query),
          arrival_id |-> << >>,
          outbound_date |-> "2025-12-01",
          currency |-> USD,
          hl |-> "en",
          api_key |-> key]
    ELSE [engine |-> "google",
          q |-> query \o InfoSuffix,
          api_key |-> key]

AirportSearchRequest(query, key) ==
    IF Len(query) = 3 /\ IsAlpha(query)
    THEN [engine |-> "google_flights",
          departure_id |-> Upper(query),
          arrival_id |-> << >>,
          outbound_date |-> "2025-12-01",
          currency |-> USD,
          hl |-> "en",
          api_key |-> key]
    ELSE [engine |-> "google",
          q |-> query \o InfoSuffix,
          api_key |-> key]

\* search_airports up to the request: no validation of query
search_airports_entry(a, key) ==
    IF ~TruthyStr(key)
    THEN Early(AirportsKeyNotConfigured)
    ELSE Proceed(AirportSearchRequest(a.query, key))

AirportsSuccess(a, results) ==
    [success |-> TRUE,
     serpapi_response |-> results,
     query |-> a.query,
     search_timestamp |-> "now"]

AirportsFailure(a, msg) ==
    [success |-> FALSE,
     error |-> msg,
     airports |-> << >>,
     query |-> a.query]

\* either except clause of search_airports: `await ctx.error(...)` is not
\* guarded by `if ctx`, so without a context the clause raises AttributeError
search_airports_except(a, msg) ==
    IF a.ctx THEN Returned(AirportsFailure(a, msg)) ELSE Raised

\* search_airports from the response on
search_airports_exit(a, outcome) ==
    IF outcome.kind = "transport"
    THEN search_airports_except(a, "API request failed")
    ELSE IF ~outcome.status_ok
    \* raise_for_status raises HTTPError, a RequestException
    THEN search_airports_except(a, "API request failed")
    ELSE IF ~outcome.body.json
    THEN search_airports_except(a,
             IF outcome.body.exc = "RequestException"
             THEN "API request failed" ELSE "Error searching airports")
    ELSE Returned(AirportsSuccess(a, outcome.body))

(***************************************************************************)
(* get_flight_prices                                                       *)
(***************************************************************************)
PricesKeyNotConfigured ==
    [success |-> FALSE,
     error |-> "SerpAPI key not configured",
     price_trends |-> << >>]

PriceSearchRequest(a, key) ==
    [engine |-> "google_flights",
     departure_id |-> Upper(a.source),
     arrival_id |-> Upper(a.destination),
     outbound_date |-> a.start_date,
     return_date |-> a.end_date,
     currency |-> a.currency,
     hl |-> "en",
     api_key |-> key]

\* get_flight_prices up to the request: no validation of its parameters
get_flight_prices_entry(a, key) ==
    IF ~TruthyStr(key)
    THEN Early(PricesKeyNotConfigured)
    ELSE Proceed(PriceSearchRequest(a, key))

PriceSearchParams(a) ==
    [source |-> a.source, destination |-> a.destination,
     start_date |-> a.start_date, end_date |-> a.end_date,
     currency |-> a.currency]

PricesSuccess(a, results) ==
    [success |-> TRUE,
     serpapi_response |-> results,
     search_params |-> PriceSearchParams(a),
     search_timestamp |-> "now"]

PricesFailure(a, msg) ==
    [success |-> FALSE,
     error |-> msg,
     price_trends |-> << >>,
     search_params |-> PriceSearchParams(a)]

\* either except clause of get_flight_prices: `await ctx.error(...)` is not
\* guarded by `if ctx`
get_flight_prices_except(a, msg) ==
    IF a.ctx THEN Returned(PricesFailure(a, msg)) ELSE Raised

\* get_flight_prices from the response on
get_flight_prices_exit(a, outcome) ==
    IF outcome.kind = "transport"
    THEN get_flight_prices_except(a, "API request failed")
    ELSE IF ~outcome.status_ok
    THEN get_flight_prices_except(a, "API request failed")
    ELSE IF ~outcome.body.json
    THEN get_flight_prices_except(a,
             IF outcome.body.exc = "RequestException"
             THEN "API request failed" ELSE "Error getting flight prices")
    ELSE Returned(PricesSuccess(a, outcome.body))

(***************************************************************************)
(* The server: one invocation at a time, each in two steps around the      *)
(* blocking HTTP GET                                                       *)
(***************************************************************************)
Handlers == {"search_flights", "search_airports", "get_flight_prices"}

Init ==
    /\ serpapi_key \in {<< >>, SampleKey}
    /\ pc = "idle"
    /\ tool = "none"
    /\ args = NoArgs
    /\ request = NoRequest
    /\ netCalls = 0
    /\ upstream = NoOutcome
    /\ result = NoResult

\* a handler runs up to its return or to its requests.get
Begin(name, a, e) ==
    /\ pc = "idle"
    /\ tool' = name
    /\ args' = a
    /\ IF e.early
       THEN /\ result' = Returned(e.response)
            /\ pc' = "done"
            /\ UNCHANGED <<request, netCalls>>
       ELSE /\ request' = e.params
            /\ netCalls' = SendRequest(netCalls)
            /\ pc' = "awaiting"
            /\ result' = NoResult
    /\ UNCHANGED <<serpapi_key, upstream>>

\* the upstream outcome arrives and the handler runs to its end
Complete(name, outcome, r) ==
    /\ pc = "awaiting"
    /\ tool = name
    /\ upstream' = outcome
    /\ result' = r
    /\ pc' = "done"
    /\ UNCHANGED <<serpapi_key, tool, args, request, netCalls>>

SearchFlightsBegin ==
    \E a \in FlightArgs :
        Begin("search_flights", a, search_flights_entry(a, serpapi_key))

SearchFlightsComplete ==
    \E outcome \in FlightOutcomes :
        Complete("search_flights", outcome, search_flights_exit(args, outcome))

SearchAirportsBegin ==
    \E a \in AirportArgs :
        Begin("search_airports", a, search_airports_entry(a, serpapi_key))

SearchAirportsComplete ==
    \E outcome \in OpaqueOutcomes :
        Complete("search_airports", outcome, search_airports_exit(args, outcome))

GetFlightPricesBegin ==
    \E a \in PriceArgs :
        Begin("get_flight_prices", a, get_flight_prices_entry(a, serpapi_key))

GetFlightPricesComplete ==
    \E outcome \in OpaqueOutcomes :
        Complete("get_flight_prices", outcome,
                 get_flight_prices_exit(args, outcome))

\* the invocation is over; the server holds no state between invocations
Return ==
    /\ pc = "done"
    /\ tool \in Handlers
    /\ pc' = "idle"
    /\ tool' = "none"
    /\ args' = NoArgs
    /\ request' = NoRequest
    /\ netCalls' = 0
    /\ upstream' = NoOutcome
    /\ result' = NoResult
    /\ UNCHANGED serpapi_key

Next ==
    \/ SearchFlightsBegin
    \/ SearchFlightsComplete
    \/ SearchAirportsBegin
    \/ SearchAirportsComplete
    \/ GetFlightPricesBegin
    \/ GetFlightPricesComplete
    \/ Return

Spec == Init /\ [][Next]_vars

(***************************************************************************)
(* Properties of the normalizer (checked under SpecNormalizer)             *)
(***************************************************************************)
NormalizerDone == pc = "done" /\ tool = "process_flight_data"

\* the raw option an enhanced flight was built from
RawOf(f) == SelectedFlights(upstream)[f.raw]

HasRawPrice(flight) == flight.price.t # "absent"

\* positions of the selected list that are not among the returned flights
Dropped(fl) ==
    {d \in 1..Len(SelectedFlights(upstream)) :
        \A i \in 1..Len(fl) : fl[i].raw # d}

NumericInput ==
    /\ upstream.dict
    /\ \A i \in 1..Len(SelectedFlights(upstream)) :
           SelectedFlights(upstream)[i].price.t = "num"

\* C1: in the returned flights a flight whose raw record has no price comes
\* only after every flight whose raw record has a price, and no priced
\* option is dropped while an unpriced one is kept.
C1_UnpricedAfterPriced ==
    (NormalizerDone /\ result.kind = "returned" /\ result.value.success) =>
        LET fl == result.value.flights
        IN  /\ \A i, j \in 1..Len(fl) :
                   (~HasRawPrice(RawOf(fl[i])) /\ HasRawPrice(RawOf(fl[j])))
                       => j < i
            /\ \A i \in 1..Len(fl) : \A d \in Dropped(fl) :
                   ~(~HasRawPrice(RawOf(fl[i]))
                        /\ HasRawPrice(SelectedFlights(upstream)[d]))

\* C2: for n options with numeric prices a successful result holds exactly
\* min(5, n) flights, each one of the options with its own price, in
\* non-decreasing order of price, none dearer than a dropped option, and
\* total_flights is the length of the list.
C2_CheapestFiveSorted ==
    (NormalizerDone /\ NumericInput /\ result.kind = "returned"
         /\ result.value.success) =>
        LET fl == result.value.flights
            sel == SelectedFlights(upstream)
            n == Len(sel)
        IN  /\ Len(fl) = IF n < 5 THEN n ELSE 5
            /\ \A i \in 1..Len(fl) :
                   fl[i].raw \in 1..n /\ fl[i].price = sel[fl[i].raw].price
            /\ \A i, j \in 1..Len(fl) : i < j =>
                   fl[i].raw # fl[j].raw /\ fl[i].price.v <= fl[j].price.v
            /\ \A i \in 1..Len(fl) : \A d \in Dropped(fl) :
                   fl[i].price.v <= sel[d].price.v
            /\ result.value.total_flights = Len(fl)

\* C2 witness: six or more numeric options given out of order, five kept,
\* and a dropped option strictly dearer than a kept one
C2_Witness ==
    /\ NormalizerDone /\ NumericInput
    /\ result.kind = "returned" /\ result.value.success
    /\ Len(SelectedFlights(upstream)) > 5
    /\ Len(result.value.flights) = 5
    /\ SelectedFlights(upstream)[1].price.v > SelectedFlights(upstream)[2].price.v
    /\ \E d \in Dropped(result.value.flights) :
           SelectedFlights(upstream)[d].price.v > result.value.flights[1].price.v

\* C10: process_flight_data always returns: success=true, or success=false
\* with an error message, no flights, total_flights 0 and search_params
\* echoing the source, destination, departure_date and return_date given.
C10_NormalizerNeverRaises ==
    NormalizerDone =>
        /\ result.kind = "returned"
        /\ \/ result.value.success
           \/ /\ ~result.value.success
              /\ "error" \in DOMAIN result.value
              /\ result.value.flights = << >>
              /\ result.value.total_flights = 0
              /\ result.value.search_params.source = args.source
              /\ result.value.search_params.destination = args.destination
              /\ result.value.search_params.departure_date = args.departure_date
              /\ result.value.search_params.return_date = args.return_date

\* C10 witness: a JSON object whose prices are of unexpected types (a string,
\* or null beside numbers) ended in the failure response
C10_Witness ==
    /\ NormalizerDone
    /\ upstream.dict
    /\ result.kind = "returned"
    /\ ~result.value.success
    /\ \E i \in 1..Len(SelectedFlights(upstream)) :
           SelectedFlights(upstream)[i].price = Null

\* C11: given an object whose best_flights and other_flights are both empty
\* (or absent, which .get reads as empty), process_flight_data returns
\* success=true with flights=[] and total_flights=0.
C11_EmptyIsSuccess ==
    (NormalizerDone /\ upstream.dict /\ upstream.best_flights = << >>
         /\ upstream.other_flights = << >>) =>
        /\ result.kind = "returned"
        /\ result.value.success
        /\ result.value.flights = << >>
        /\ result.value.total_flights = 0

\* C11 witness: the normalizer has answered an object with two empty lists
C11_Witness ==
    /\ NormalizerDone
    /\ upstream = ResultsDict(FALSE, << >>, << >>)
    /\ result.kind = "returned"
    /\ result.value.success
    /\ result.value.total_flights = 0

(***************************************************************************)
(* Properties of the handlers (checked under Spec)                         *)
(***************************************************************************)
HandlerDone == pc = "done" /\ tool \in Handlers

\* a required parameter of the invoked handler is empty
RequiredEmpty ==
    CASE tool = "search_flights" ->
             \/ args.source = << >>
             \/ args.destination = << >>
             \/ args.departure_date = << >>
      [] tool = "search_airports" -> args.query = << >>
      [] tool = "get_flight_prices" ->
             \/ args.source = << >>
             \/ args.destination = << >>
             \/ args.start_date = << >>
             \/ args.end_date = << >>
      [] OTHER -> FALSE

\* the response holds an empty result list
EmptyResultList(v) ==
    \E k \in DOMAIN v \cap {"flights", "airports", "price_trends"} : v[k] = << >>

\* the upstream outcome is a JSON object
VendorObject ==
    /\ upstream.kind = "response"
    /\ upstream.body.json
    /\ upstream.body.dict

\* C3: every invocation of a handler ends by returning a response, never by
\* raising, and a failure response has success=false, an error string and an
\* empty result list.
C3_HandlersNeverRaise ==
    HandlerDone =>
        /\ result.kind = "returned"
        /\ ~result.value.success =>
               "error" \in DOMAIN result.value /\ EmptyResultList(result.value)

\* C4: with an empty required parameter the handler returns success=false
\* and issues no request to the upstream API.
C4_ValidationBeforeRequest ==
    (tool \in Handlers /\ RequiredEmpty) =>
        /\ netCalls = 0
        /\ pc = "done"
        /\ result.kind = "returned"
        /\ ~result.value.success

\* C5 as stated: with the API key unset every invocation returns the
\* configuration error, with an empty result list and no request issued.
C5_AsStated ==
    (HandlerDone /\ serpapi_key = << >>) =>
        /\ result.kind = "returned"
        /\ ~result.value.success
        /\ result.value.error = "SerpAPI key not configured"
        /\ EmptyResultList(result.value)
        /\ netCalls = 0

\* C5: with the API key unset no request is ever issued and every invocation
\* returns success=false with an empty result list (flights=[] for
\* search_flights); the error is the configuration error, except that
\* search_flights with an empty required parameter returns its validation
\* error, which it checks first.
C5_KeyUnsetNoRequest ==
    serpapi_key = << >> =>
        /\ netCalls = 0
        /\ pc # "awaiting"
        /\ HandlerDone =>
               /\ result.kind = "returned"
               /\ ~result.value.success
               /\ EmptyResultList(result.value)
               /\ tool = "search_flights" => result.value.flights = << >>
               /\ result.value.error =
                      IF tool = "search_flights" /\ RequiredEmpty
                      THEN "Missing required parameters"
                      ELSE "SerpAPI key not configured"

\* C5 witness: search_flights, valid parameters, no key: configuration error
C5_Witness ==
    /\ HandlerDone /\ tool = "search_flights"
    /\ serpapi_key = << >>
    /\ ~RequiredEmpty
    /\ result.kind = "returned"
    /\ result.value.error = "SerpAPI key not configured"
    /\ netCalls = 0

\* C6: an invocation issues at most one request, and exactly one once the
\* required parameters are non-empty and the API key is set; the count stays
\* at one whatever the outcome of the request.
C6_OneRequestPerInvocation ==
    /\ netCalls <= 1
    /\ (tool \in Handlers /\ ~RequiredEmpty /\ serpapi_key # << >>) =>
           netCalls = 1 /\ request # NoRequest

\* C6 witness: the request failed in transport and the invocation ended with
\* one request issued
C6_Witness ==
    /\ HandlerDone
    /\ upstream = TransportFailure
    /\ netCalls = 1

\* C7: for a vendor object without an error field, search_flights answers
\* "no flights" only when both lists are empty, and with an empty primary and
\* a non-empty alternate list it returns the normalizer's result.
C7_AlternateListUsed ==
    (HandlerDone /\ tool = "search_flights" /\ VendorObject
         /\ upstream.status_ok /\ ~upstream.body.has_error
         /\ result.kind = "returned") =>
        /\ result.value = NoFlightsFound(args) =>
               /\ upstream.body.best_flights = << >>
               /\ upstream.body.other_flights = << >>
        /\ (upstream.body.best_flights = << >>
                /\ upstream.body.other_flights # << >>) =>
               result = process_flight_data(upstream.body, args.source,
                            args.destination, args.departure_date,
                            args.return_date)

\* C8: a response returned for a vendor object that carries an error field
\* has success=false, an error string and an empty result list.
C8_VendorErrorIsFailure ==
    (HandlerDone /\ VendorObject /\ upstream.body.has_error
         /\ result.kind = "returned") =>
        /\ ~result.value.success
        /\ "error" \in DOMAIN result.value
        /\ EmptyResultList(result.value)

\* C9 as stated: every response holds success, error and the endpoint's
\* result key (flights; price_trends or serpapi_response).
C9_AsStated ==
    (HandlerDone /\ result.kind = "returned") =>
        /\ {"success", "error"} \subseteq DOMAIN result.value
        /\ IF tool = "search_flights"
           THEN "flights" \in DOMAIN result.value
           ELSE DOMAIN result.value \cap {"price_trends", "serpapi_response"} # {}

\* C9: every response holds success; it holds error exactly when success is
\* false; search_flights always holds flights, the other two hold
\* serpapi_response on success, and on failure search_airports holds an empty
\* airports and get_flight_prices an empty price_trends.
C9_ResponseKeys ==
    (HandlerDone /\ result.kind = "returned") =>
        LET v == result.value
        IN  /\ "success" \in DOMAIN v
            /\ ("error" \in DOMAIN v) <=> ~v.success
            /\ tool = "search_flights" => "flights" \in DOMAIN v
            /\ (tool # "search_flights" /\ v.success) =>
                   "serpapi_response" \in DOMAIN v
            /\ (tool = "search_airports" /\ ~v.success) =>
                   ("airports" \in DOMAIN v /\ v.airports = << >>)
            /\ (tool = "get_flight_prices" /\ ~v.success) =>
                   ("price_trends" \in DOMAIN v /\ v.price_trends = << >>)

\* C9 witness: a failure of search_flights after the request (error present)
C9_Witness ==
    /\ HandlerDone /\ tool = "search_flights"
    /\ upstream = TransportFailure
    /\ result.kind = "returned"
    /\ ~result.value.success
    /\ "error" \in DOMAIN result.value


\* the query of the current search_airports invocation is three letters
ThreeLetters ==
    /\ Len(args.query) = 3
    /\ \A i \in 1..3 : args.query[i] \in {"a", "B"}

\* C12: the request search_airports sends uses the flight-search engine, with
\* departure_id the upper-cased query, exactly when the query is three
\* alphabetic characters; otherwise it is a web search whose text is the
\* query followed by " airport IATA code information".
C12_AirportRouting ==
    (tool = "search_airports" /\ pc \in {"awaiting", "done"} /\ netCalls > 0) =>
        /\ request.engine \in {"google_flights", "google"}
        /\ request.engine = "google_flights" <=> ThreeLetters
        /\ request.engine = "google_flights" =>
               /\ Len(request.departure_id) = 3
               /\ \A i \in 1..3 :
                      request.departure_id[i] =
                          IF args.query[i] = "a" THEN "A" ELSE args.query[i]
        /\ request.engine = "google" =>
               /\ Len(request.q) = Len(args.query) + 1
               /\ SubSeq(request.q, 1, Len(args.query)) = args.query
               /\ request.q[Len(request.q)] = " airport IATA code information"

\* C12 witness: a three-letter query with a lower-case letter went out on the
\* flight-search engine, upper-cased
C12_Witness ==
    /\ tool = "search_airports" /\ pc = "awaiting"
    /\ args.query = <<"a", "B", "a">>
    /\ request.engine = "google_flights"
    /\ request.departure_id = <<"A", "B", "A">>


(***************************************************************************)
(* generate_booking_link                                                   *)
(*                                                                         *)
(* A URL is a str: the literal parts of the f-strings are single elements, *)
(* the interpolated arguments are spliced in character by character.  The  *)
(* statements after the return of method 3 (airline sites, kayak) are      *)
(* never executed and are not modelled.                                    *)
(***************************************************************************)
TokenA == <<"a", "1">>

TokenB == <<"B", "1">>

SampleReturn == <<"1", "B">>

\* the value under a token key: no such key (None), "", or a token
TokenValues == {None, Some(<< >>), Some(TokenA), Some(TokenB)}

\* a flight record that is no dict (.get raises AttributeError), or a dict
\* with its two token keys
NotARecord == [dict |-> FALSE]

LinkFlights ==
    {NotARecord} \cup
    [dict : {TRUE}, booking_token : TokenValues, departure_token : TokenValues]

TravelUrl(token) == <<"https://www.google.com/travel/flights?tfs=">> \o token

\* method 3: the Google Flights URL built from the parameters
GenericUrl(source, destination, departure_date, return_date) ==
    <<"https://www.google.com/travel/flights", "?",
      "hl=en", "&", "curr=USD", "&", "f=0", "&",
      "tfs=CAEQAxoaagwIAhIIL20vMDJqNnQSCjIwMjUtMDMtMTUaGhIKMjAyNS0wMy0yMBAC",
      "&", "q=Flights%20from%20">> \o source \o <<"%20to%20">> \o destination
    \o <<"&", "d1=">> \o departure_date
    \o (IF TruthyOpt(return_date)
        THEN <<"&", "d2=">> \o return_date.s \o <<"&", "f=1">>
        ELSE << >>)

\* the URL of the except clause
FallbackUrl(source, destination, departure_date, return_date) ==
    <<"https://www.google.com/travel/flights?hl=en&curr=USD&q=Flights%20from%20">>
    \o source \o <<"%20to%20">> \o destination
    \o <<"%20on%20">> \o departure_date
    \o (IF TruthyOpt(return_date)
        THEN <<"%20return%20">> \o return_date.s
        ELSE << >>)

\* the link, were the departure token looked at first
generate_booking_link_departureFirst(flight_data, source, destination, departure_date, return_date) ==
    IF ~flight_data.dict
    THEN Returned(FallbackUrl(source, destination, departure_date, return_date))
    ELSE IF TruthyOpt(flight_data.departure_token)
    THEN Returned(TravelUrl(flight_data.departure_token.s))
    ELSE IF TruthyOpt(flight_data.booking_token)
    THEN Returned(TravelUrl(flight_data.booking_token.s))
    ELSE Returned(GenericUrl(source, destination, departure_date, return_date))

generate_booking_link(flight_data, source, destination, departure_date, return_date) ==
    IF ~flight_data.dict
    THEN Returned(FallbackUrl(source, destination, departure_date, return_date))
    ELSE IF TruthyOpt(flight_data.booking_token)
    THEN Returned(TravelUrl(flight_data.booking_token.s))
    ELSE IF TruthyOpt(flight_data.departure_token)
    THEN Returned(TravelUrl(flight_data.departure_token.s))
    ELSE Returned(GenericUrl(source, destination, departure_date, return_date))

LinkArgs ==
    [flight_data : LinkFlights,
     source : {<< >>, SampleA}, destination : {<< >>, SampleB},
     departure_date : {<< >>, SampleDate},
     return_date : {None, Some(<< >>), Some(SampleReturn)}]

InitBookingLink ==
    /\ serpapi_key = << >>
    /\ pc = "called"
    /\ tool = "generate_booking_link"
    /\ args \in LinkArgs
    /\ request = NoRequest
    /\ netCalls = 0
    /\ upstream = NoOutcome
    /\ result = NoResult

GenerateBookingLink ==
    /\ pc = "called"
    /\ tool = "generate_booking_link"
    /\ result' = generate_booking_link(args.flight_data, args.source,
                     args.destination, args.departure_date, args.return_date)
    /\ pc' = "done"
    /\ UNCHANGED <<serpapi_key, tool, args, request, netCalls, upstream>>

NextBookingLink == GenerateBookingLink

SpecBookingLink == InitBookingLink /\ [][NextBookingLink]_vars

(***************************************************************************)
(* Properties of generate_booking_link (checked under SpecBookingLink)     *)
(***************************************************************************)
LinkDone == pc = "done" /\ tool = "generate_booking_link"

\* s occurs in url as a run of consecutive characters
Contains(url, s) ==
    \E k \in 0..(Len(url) - Len(s)) :
        \A i \in 1..Len(s) : url[k + i] = s[i]

HasToken(key) ==
    /\ args.flight_data.dict
    /\ args.flight_data[key].some
    /\ args.flight_data[key].s # << >>

\* C13: generate_booking_link always returns a non-empty URL: with a booking
\* token the URL carries that token (whatever the departure token), else
\* with a departure token that token, else the URL holds the source, the
\* destination and the departure date, and the return date when one is given.
C13_BookingLinkPrecedence ==
    LinkDone =>
        /\ result.kind = "returned"
        /\ result.value # << >>
        /\ HasToken("booking_token") =>
               result.value =
                   <<"https://www.google.com/travel/flights?tfs=">>
                       \o args.flight_data.booking_token.s
        /\ (~HasToken("booking_token") /\ HasToken("departure_token")) =>
               result.value =
                   <<"https://www.google.com/travel/flights?tfs=">>
                       \o args.flight_data.departure_token.s
        /\ (~HasToken("booking_token") /\ ~HasToken("departure_token")) =>
               /\ Contains(result.value, args.source)
               /\ Contains(result.value, args.destination)
               /\ Contains(result.value, args.departure_date)
               /\ (args.return_date.some /\ args.return_date.s # << >>) =>
                      Contains(result.value, args.return_date.s)

\* C13 witness: both tokens present and different, the booking token used
C13_Witness ==
    /\ LinkDone
    /\ args.flight_data.dict
    /\ args.flight_data.booking_token = Some(TokenA)
    /\ args.flight_data.departure_token = Some(TokenB)
    /\ result.kind = "returned"
    /\ Contains(result.value, TokenA)
    /\ ~Contains(result.value, TokenB)


(***************************************************************************)
(* format_duration                                                         *)
(***************************************************************************)
Digits == <<"0", "1", "2", "3", "4", "5", "6", "7", "8", "9">>

RECURSIVE ToDecimal(_)
\* the decimal digits an f-string writes for a non-negative int
ToDecimal(n) ==
    IF n < 10 THEN <<Digits[n + 1]>>
    ELSE ToDecimal(n \div 10) \o <<Digits[(n % 10) + 1]>>

Unknown == <<"Unknown">>

\* `not minutes`: None, or the number 0
FalsyMinutes(minutes) == minutes.t = "null" \/ minutes.v = 0

\* the format, were the remaining minutes left out beside the hours
format_duration_hoursOnly(minutes) ==
    IF FalsyMinutes(minutes) THEN Unknown
    ELSE LET hours == minutes.v \div 60
             remaining_minutes == minutes.v % 60
         IN  IF hours > 0
             THEN ToDecimal(hours) \o <<"h">>
             ELSE ToDecimal(remaining_minutes) \o <<"m">>

format_duration(minutes) ==
    IF FalsyMinutes(minutes) THEN Unknown
    ELSE LET hours == minutes.v \div 60
             remaining_minutes == minutes.v % 60
         IN  IF hours > 0 /\ remaining_minutes > 0
             THEN ToDecimal(hours) \o <<"h", " ">>
                      \o ToDecimal(remaining_minutes) \o <<"m">>
             ELSE IF hours > 0
             THEN ToDecimal(hours) \o <<"h">>
             ELSE ToDecimal(remaining_minutes) \o <<"m">>

\* the minutes given: None (the key's value is null) or an int from 0 up
DurationInputs == {Null} \cup {Num(n) : n \in 0..MaxMinutes}

InitDuration ==
    /\ serpapi_key = << >>
    /\ pc = "called"
    /\ tool = "format_duration"
    /\ args \in [minutes : DurationInputs]
    /\ request = NoRequest
    /\ netCalls = 0
    /\ upstream = NoOutcome
    /\ result = NoResult

FormatDuration ==
    /\ pc = "called"
    /\ tool = "format_duration"
    /\ result' = Returned(format_duration(args.minutes))
    /\ pc' = "done"
    /\ UNCHANGED <<serpapi_key, tool, args, request, netCalls, upstream>>

NextDuration == FormatDuration

SpecDuration == InitDuration /\ [][NextDuration]_vars

(***************************************************************************)
(* Properties of format_duration (checked under SpecDuration)              *)
(***************************************************************************)
DurationDone == pc = "done" /\ tool = "format_duration"

IsNumber(s) ==
    /\ Len(s) > 0
    /\ \A i \in 1..Len(s) : \E d \in 1..10 : s[i] = Digits[d]

RECURSIVE ReadNumber(_)
\* the number a run of decimal digits denotes
ReadNumber(s) ==
    IF s = << >> THEN 0
    ELSE 10 * ReadNumber(SubSeq(s, 1, Len(s) - 1))
             + ((CHOOSE d \in 1..10 : s[Len(s)] = Digits[d]) - 1)

Positions(s, c) == {i \in 1..Len(s) : s[i] = c}

\* s reads "<H>h <M>m", "<H>h" or "<M>m", H and M decimal numbers
DurationShape(s) ==
    LET hs == Positions(s, "h")
        ms == Positions(s, "m")
    IN  \/ /\ hs = {} /\ ms = {Len(s)}
           /\ IsNumber(SubSeq(s, 1, Len(s) - 1))
        \/ /\ ms = {} /\ hs = {Len(s)}
           /\ IsNumber(SubSeq(s, 1, Len(s) - 1))
        \/ \E i \in 2..(Len(s) - 3) :
               /\ hs = {i} /\ ms = {Len(s)}
               /\ s[i + 1] = " "
               /\ IsNumber(SubSeq(s, 1, i - 1))
               /\ IsNumber(SubSeq(s, i + 2, Len(s) - 1))

\* the hours read back out of s: the number before "h", 0 without one
ReadHours(s) ==
    IF Positions(s, "h") = {} THEN 0
    ELSE LET i == CHOOSE p \in Positions(s, "h") : TRUE
         IN  ReadNumber(SubSeq(s, 1, i - 1))

\* the minutes read back out of s: the number before "m", 0 without one
ReadMinutes(s) ==
    IF Positions(s, "m") = {} THEN 0
    ELSE LET j == CHOOSE p \in Positions(s, "m") : TRUE
             from == IF Positions(s, "h") = {} THEN 1
                     ELSE (CHOOSE p \in Positions(s, "h") : TRUE) + 2
         IN  ReadNumber(SubSeq(s, from, j - 1))

\* C14: for m > 0 the text reads "Hh Mm", "Hh" or "Mm" and the hours and
\* minutes read back out of it give 60*H + M = m with 0 <= M < 60; for m = 0
\* or a missing value the text is "Unknown".
C14_DurationRoundTrip ==
    DurationDone =>
        IF args.minutes.t = "num" /\ args.minutes.v > 0
        THEN /\ DurationShape(result.value)
             /\ 60 * ReadHours(result.value) + ReadMinutes(result.value)
                    = args.minutes.v
             /\ ReadMinutes(result.value) >= 0
             /\ ReadMinutes(result.value) < 60
        ELSE result.value = <<"Unknown">>

\* C14 witness: a duration of more than ten hours with minutes left over,
\* written in the two-part form
C14_Witness ==
    /\ DurationDone
    /\ args.minutes = Num(725)
    /\ result.value = <<"1", "2", "h", " ", "5", "m">>


(***************************************************************************)
(* format_time                                                             *)
(*                                                                         *)
(* A time string is a sequence of pieces: the markers "|", "T" and "Z", a  *)
(* well-formed date, a well-formed clock time, and "x" for any character   *)
(* that belongs to none of them.  A JSON value that is no string is a      *)
(* number, as the "time" key of a segment may hold any JSON value.         *)
(***************************************************************************)
DatePiece == "2024-01-15"

TimePiece == "10:30"

UtcOffset == "+00:00"

TimePieces == {"|", "T", "Z", DatePiece, TimePiece, "x"}

Text(s) == [t |-> "str", v |-> s]

\* `not time_str`: None, the empty string, or the number 0
FalsyTime(time_str) ==
    \/ time_str.t = "null"
    \/ time_str.t = "num" /\ time_str.v = 0
    \/ time_str.t = "str" /\ time_str.v = << >>

\* `"|" in time_str`, for a str
In(piece, s) == \E i \in 1..Len(s) : s[i] = piece

\* time_str.replace("Z", "+00:00")
ReplaceZ(s) == [i \in 1..Len(s) |-> IF s[i] = "Z" THEN UtcOffset ELSE s[i]]

\* datetime.fromisoformat accepts a date, the separator and a clock time,
\* with or without a UTC offset after them, and raises ValueError otherwise
FromIsoFormatRaises(s) ==
    /\ s /= <<DatePiece, "T", TimePiece>>
    /\ s /= <<DatePiece, "T", TimePiece, UtcOffset>>

\* dt.strftime("%b-%d, %Y | %I:%M %p") of the date and clock time parsed
Strftime(s) == <<"Jan-15, 2024", " ", "|", " ", "10:30 AM">>

\* format_time without its except clause
format_time_uncaught(time_str) ==
    IF FalsyTime(time_str) THEN Returned(Text(Unknown))
    ELSE IF time_str.t /= "str" THEN Raised
    ELSE IF In("|", time_str.v) THEN Returned(time_str)
    ELSE IF In("T", time_str.v)
    THEN IF FromIsoFormatRaises(ReplaceZ(time_str.v))
         THEN Raised
         ELSE Returned(Text(Strftime(ReplaceZ(time_str.v))))
    ELSE Returned(time_str)

format_time(time_str) ==
    IF FalsyTime(time_str) THEN Returned(Text(Unknown))
    \* `"|" in time_str` raises TypeError on a number; except: return time_str
    ELSE IF time_str.t /= "str" THEN Returned(time_str)
    ELSE IF In("|", time_str.v) THEN Returned(time_str)
    ELSE IF In("T", time_str.v)
    THEN IF FromIsoFormatRaises(ReplaceZ(time_str.v))
         THEN Returned(time_str)
         ELSE Returned(Text(Strftime(ReplaceZ(time_str.v))))
    ELSE Returned(time_str)

InitTime ==
    /\ serpapi_key = << >>
    /\ pc = "called"
    /\ tool = "format_time"
    /\ \/ args \in [time_str : {Null, Num(0), Num(5)}]
       \/ \E n \in 0..MaxTimeLen : \E s \in [1..n -> TimePieces] :
              args = [time_str |-> Text(s)]
    /\ request = NoRequest
    /\ netCalls = 0
    /\ upstream = NoOutcome
    /\ result = NoResult

FormatTime ==
    /\ pc = "called"
    /\ tool = "format_time"
    /\ result' = format_time(args.time_str)
    /\ pc' = "done"
    /\ UNCHANGED <<serpapi_key, tool, args, request, netCalls, upstream>>

NextTime == FormatTime

SpecTime == InitTime /\ [][NextTime]_vars

(***************************************************************************)
(* Properties of format_time (checked under SpecTime)                      *)
(***************************************************************************)
TimeDone == pc = "done" /\ tool = "format_time"

NonEmptyString(x) == x.t = "str" /\ x.v /= << >>

\* s is an ISO-8601 timestamp: a date, "T", a clock time, and possibly the
\* zone, written "Z" or as an offset
IsoTimestamp(s) ==
    \/ s = <<DatePiece, "T", TimePiece>>
    \/ s = <<DatePiece, "T", TimePiece, "Z">>
    \/ s = <<DatePiece, "T", TimePiece, UtcOffset>>

SameText(x, y) == x.t = "str" /\ y.t = "str" /\ x.v = y.v

\* C15: format_time never raises; a non-empty string that is no ISO-8601
\* timestamp (with "|", with "T" but unparseable, or with neither marker) comes
\* back unchanged; an empty or missing input gives "Unknown".
C15_TimePassThrough ==
    TimeDone =>
        /\ result.kind = "returned"
        /\ (NonEmptyString(args.time_str) /\ ~IsoTimestamp(args.time_str.v))
               => SameText(result.value, args.time_str)
        /\ (args.time_str.t = "null" \/ args.time_str = Text(<< >>))
               => SameText(result.value, Text(<<"Unknown">>))

\* C15 witness: a string with the "T" marker that fromisoformat rejects has
\* been returned as it was given
C15_Witness ==
    /\ TimeDone
    /\ SameText(args.time_str, Text(<<DatePiece, "T", "x">>))
    /\ result.kind = "returned"
    /\ SameText(result.value, args.time_str)

====
